---- MODULE Spec2Model ----
(***************************************************************************)
(* A model of weather_analysis.py: the synthesis of the temperature        *)
(* dataset, its persistence, the two renderers, the six hadoop commands    *)
(* and main, which runs them one after another.                            *)
(*                                                                         *)
(* Numbers.  A temperature is an integer count of "fine units", Unit of    *)
(* them to a degree (Unit = 10 * RawDen): random.uniform returns a value   *)
(* on the grid of 1/RawDen degree, round(temp, 1) returns a value on the   *)
(* grid of 1/10 degree, and both grids are exact on the fine grid.  With   *)
(* RawDen a power of two the raw values are exactly representable floats,  *)
(* so round() is the nearest tenth with exact ties going to the even one.  *)
(* A date is the ordinal of the day.                                       *)
(***************************************************************************)
EXTENDS Integers, Sequences, FiniteSets, TLC

VARIABLES pc, today, rng, df, fs, hdfs, hadoopInstalled, steps, calls, exitStatus

vars == <<pc, today, rng, df, fs, hdfs, hadoopInstalled, steps, calls, exitStatus>>

(* ------------------------------ bounds --------------------------------- *)
MaxToday == 1
MaxStart == 1
MaxStep == 2
RawDen == 8

(* ------------------------- program constants --------------------------- *)
NumDays == 30
TempMin == -5
TempMax == 35
Bins == 20

cities == <<"London", "New York", "Tokyo", "Berlin", "Moscow", "Sydney">>

Unit == 10 * RawDen

RawCount == (TempMax - TempMin) * RawDen + 1

NumReadings == Len(cities) * NumDays

(* The order of str comparison on the six city names. *)
CityRank(c) ==
    CASE c = "Berlin" -> 1
      [] c = "London" -> 2
      [] c = "Moscow" -> 3
      [] c = "New York" -> 4
      [] c = "Sydney" -> 5
      [] c = "Tokyo" -> 6

(* ------------------------------ paths ---------------------------------- *)
csv_file == "weather_data.csv"
png_changes == "temperature_changes.png"
png_distribution == "temperature_distribution.png"
results_dir == "results_from_hdfs"

hdfs_csv_path == "/user/your_hdfs_user/weather_data.csv"
hdfs_temp_changes == "/user/your_hdfs_user/temperature_changes.png"
hdfs_temp_distribution == "/user/your_hdfs_user/temperature_distribution.png"

local_csv_copy == "results_from_hdfs/weather_data.csv"
local_changes_copy == "results_from_hdfs/temperature_changes.png"
local_distribution_copy == "results_from_hdfs/temperature_distribution.png"

Artifacts == {csv_file, png_changes, png_distribution}
RemotePaths == {hdfs_csv_path, hdfs_temp_changes, hdfs_temp_distribution}
Copies == {local_csv_copy, local_changes_copy, local_distribution_copy}
LocalPaths == Artifacts \cup Copies \cup {results_dir}

Absent == [kind |-> "absent"]
Stale == [kind |-> "stale"]
Dir == [kind |-> "dir"]

NoFrame == [dateDtype |-> "none", rows |-> <<>>]

(* --------------------------- the random source ------------------------- *)
(* random.uniform(-5, 35): the value of the n-th draw (n = 0, 1, ...) of   *)
(* the stream the generator was seeded with, in fine units.  The stream is *)
(* the arithmetic progression start, start + step, ... on the raw grid,    *)
(* wrapped into [TempMin, TempMax]; step 0 is the constant stream.         *)
uniform(g, n) ==
    10 * (TempMin * RawDen + ((g.start + n * g.step) % RawCount))

(* round() left out: the raw value is stored. *)
round1_Unrounded(x) == x

(* round(temp, 1): the nearest multiple of a tenth of a degree, an exact   *)
(* tie going to the even tenth.                                            *)
round1(x) ==
    LET q == x \div RawDen
        r == x % RawDen
    IN  IF 2 * r < RawDen THEN q * RawDen
        ELSE IF 2 * r > RawDen THEN (q + 1) * RawDen
        ELSE IF q % 2 = 0 THEN q * RawDen
        ELSE (q + 1) * RawDen

(* The window shifted by a day: days = 29 - i. *)
date_i_ThroughToday(t, i) == t - (NumDays - 1 - i)

(* -------------------------- generate_weather_data ---------------------- *)
(* date_i = today - timedelta(days = 30 - i), for i in range(30).          *)
date_i(t, i) == t - (NumDays - i)

(* The n-th appended row (n = 1 .. 180): city (n-1) div 30, i (n-1) mod 30.*)
Reading(t, g, n) ==
    [date |-> date_i(t, (n - 1) % NumDays),
     city |-> cities[((n - 1) \div NumDays) + 1],
     temperature |-> round1(uniform(g, g.draws + n - 1))]

generate_weather_data(t, g) ==
    [dateDtype |-> "object",
     rows |-> [n \in 1..NumReadings |-> Reading(t, g, n)]]

(* ------------------------------ DataFrame.to_csv ----------------------- *)
(* The header row and one row per reading, in the frame's order.           *)
to_csv(frame) ==
    [kind |-> "csv",
     header |-> <<"date", "city", "temperature">>,
     rows |-> frame.rows]

(* -------------------------- plot_temperature_changes ------------------- *)
(* df["date"] = pd.to_datetime(df["date"]) assigns a column of the frame   *)
(* the caller passed: the values stay, the column's dtype becomes          *)
(* datetime64[ns].                                                         *)
to_datetime(frame) == [frame EXCEPT !.dateDtype = "datetime64[ns]"]

RowBefore(a, b) ==
    \/ CityRank(a.city) < CityRank(b.city)
    \/ a.city = b.city /\ a.date < b.date

(* df.sort_values(by = ["city", "date"]): a new frame, the caller's rows   *)
(* keep their order.  Rows with equal keys keep their relative order: the  *)
(* row at index n goes to the position that counts the rows before it.     *)
sort_values(rows) ==
    CHOOSE out \in
      {[p \in 1..Len(rs) |-> rs[CHOOSE n \in 1..Len(rs) : pos[n] = p]] :
         <<rs, pos>> \in
           {<<r, [n \in 1..Len(r) |->
                    1 + Cardinality({m \in 1..Len(r) :
                          \/ RowBefore(r[m], r[n])
                          \/ ~RowBefore(r[n], r[m]) /\ m < n})]>> : r \in {rows}}} :
      TRUE

(* df["city"].unique(): the cities in the order of their first row.       *)
unique(rows) ==
    CHOOSE out \in
      {[k \in 1..Cardinality(first) |->
          rows[CHOOSE n \in first : Cardinality({m \in first : m < n}) = k - 1].city] :
         first \in {{n \in 1..Len(rows) :
                       \A m \in 1..(n - 1) : rows[m].city # rows[n].city}}} :
      TRUE

(* df[df["city"] == city], then its "date" and "temperature" columns.      *)
Line(sorted, city) ==
    CHOOSE line \in
      {[label |-> city,
        x |-> [n \in 1..Len(city_data) |-> city_data[n].date],
        y |-> [n \in 1..Len(city_data) |-> city_data[n].temperature]] :
         city_data \in {SelectSeq(sorted, LAMBDA r : r.city = city)}} :
      TRUE

(* One plotted line per city, in the order of unique(). *)
ChangesFigure(frame) ==
    CHOOSE fig \in
      {[kind |-> "lines",
        lines |-> [k \in 1..Len(sn[2]) |-> Line(sn[1], sn[2][k])]] :
         sn \in {<<s, unique(s)>> : s \in {sort_values(frame.rows)}}} :
      TRUE

(* ------------------------ plot_temperature_distribution ---------------- *)
SeqMin(s) == CHOOSE v \in {s[n] : n \in 1..Len(s)} : \A n \in 1..Len(s) : v <= s[n]
SeqMax(s) == CHOOSE v \in {s[n] : n \in 1..Len(s)} : \A n \in 1..Len(s) : v >= s[n]

(* The outer edges of the histogram: the least and the greatest value, and *)
(* half a degree to each side of it when they are the same value.          *)
OuterEdges(lo, hi) ==
    IF lo = hi THEN <<lo - Unit \div 2, hi + Unit \div 2>> ELSE <<lo, hi>>

(* Every bin open on the right: the greatest value falls past the last bin. *)
BinIndex_AllHalfOpen(v, lo, hi, bins) == ((v - lo) * bins) \div (hi - lo)

(* The bin of value v among `bins` equal bins on [lo, hi]: bins are closed *)
(* on the left and open on the right, but for the last, which is closed.   *)
BinIndex(v, lo, hi, bins) ==
    IF v = hi THEN bins - 1 ELSE ((v - lo) * bins) \div (hi - lo)

(* plt.hist(values, bins): the counts of the bins 0 .. bins-1 and the      *)
(* bins+1 edges; an edge is kept multiplied by `bins`, which makes it an   *)
(* integer: edge j is lo + j * (hi - lo) / bins.                           *)
hist(temps, bins) ==
    CHOOSE h \in
      {[kind |-> "hist",
        counts |-> [j \in 1..bins |->
                      Cardinality({n \in 1..Len(t) :
                                     BinIndex(t[n], oe[1], oe[2], bins) = j - 1})],
        edges |-> [j \in 1..(bins + 1) |-> bins * oe[1] + (j - 1) * (oe[2] - oe[1])]] :
         <<t, oe>> \in {<<v, OuterEdges(SeqMin(v), SeqMax(v))>> : v \in {temps}}} :
      TRUE

Temperatures(frame) == [n \in 1..Len(frame.rows) |-> frame.rows[n].temperature]

(* ------------------------- the hadoop command line --------------------- *)
IsFile(content) == content.kind \notin {"absent", "dir"}

(* What os.system(cmd) can return: 32512 (exit code 127 of the shell) when *)
(* there is no hadoop to run, 0 only when the source of the transfer       *)
(* exists, 256 (exit code 1) whenever hadoop runs.                         *)
ExitStatuses(source) ==
    IF ~hadoopInstalled THEN {32512}
    ELSE IF IsFile(source) THEN {0, 256}
    ELSE {256}

(* The transfer without -f: an existing remote file is kept. *)
FsPut_KeepExisting(store, files, local, remote) ==
    IF store[remote] = Absent THEN [store EXCEPT ![remote] = files[local]] ELSE store

(* hadoop fs -put -f local remote, exit code 0: the remote path holds the  *)
(* local file, whatever it held.                                           *)
FsPut(store, files, local, remote) == [store EXCEPT ![remote] = files[local]]

(* hadoop fs -get -f remote local, exit code 0: the local path holds the   *)
(* remote file, whatever it held.                                          *)
FsGet(files, store, remote, local) == [files EXCEPT ![local] = store[remote]]

(* The value of os.system checked: a failed command ends the run. *)
AfterCommand_StopOnFailure(status, next) == IF status = 0 THEN next ELSE "aborted"

(* The statement main runs after a call of save_results_to_hdfs or         *)
(* get_results_from_hdfs: the value of os.system is dropped.               *)
AfterCommand(status, next) == next

(* ------------------------------- main ---------------------------------- *)
(* An exception leaves main and ends the interpreter with status 1.        *)
Raise(step) ==
    /\ pc' = "aborted"
    /\ steps' = Append(steps, [step |-> step, ok |-> FALSE])
    /\ exitStatus' = 1

Done(step, next) ==
    /\ pc' = next
    /\ steps' = Append(steps, [step |-> step, ok |-> TRUE])
    /\ UNCHANGED exitStatus

Generate ==
    /\ pc = "generate"
    /\ df' = generate_weather_data(today, rng)
    /\ rng' = [rng EXCEPT !.draws = @ + NumReadings]
    /\ Done("generate", "to_csv")
    /\ UNCHANGED <<today, fs, hdfs, hadoopInstalled, calls>>

GenerateRaises ==
    /\ pc = "generate"
    /\ Raise("generate")
    /\ UNCHANGED <<today, rng, df, fs, hdfs, hadoopInstalled, calls>>

ToCsv ==
    /\ pc = "to_csv"
    /\ fs' = [fs EXCEPT ![csv_file] = to_csv(df)]
    /\ Done("to_csv", "plot_changes")
    /\ UNCHANGED <<today, rng, df, hdfs, hadoopInstalled, calls>>

ToCsvRaises ==
    /\ pc = "to_csv"
    /\ Raise("to_csv")
    /\ UNCHANGED <<today, rng, df, fs, hdfs, hadoopInstalled, calls>>

(* main with the call of plot_temperature_distribution left out. *)
PlotTemperatureChanges_ThenPut ==
    /\ pc = "plot_changes"
    /\ df' = to_datetime(df)
    /\ fs' = [fs EXCEPT ![png_changes] = ChangesFigure(df')]
    /\ Done("plot_changes", "put_csv")
    /\ UNCHANGED <<today, rng, hdfs, hadoopInstalled, calls>>

PlotTemperatureChanges ==
    /\ pc = "plot_changes"
    /\ df' = to_datetime(df)
    /\ fs' = [fs EXCEPT ![png_changes] = ChangesFigure(df')]
    /\ Done("plot_changes", "plot_distribution")
    /\ UNCHANGED <<today, rng, hdfs, hadoopInstalled, calls>>

(* The exception of the renderer caught and dropped: main goes on. *)
PlotTemperatureChangesRaises_Swallowed ==
    /\ pc = "plot_changes"
    /\ df' = to_datetime(df)
    /\ pc' = "plot_distribution"
    /\ steps' = Append(steps, [step |-> "plot_changes", ok |-> FALSE])
    /\ UNCHANGED <<today, rng, fs, hdfs, hadoopInstalled, calls, exitStatus>>

(* plt.savefig raises: the column was assigned before. *)
PlotTemperatureChangesRaises ==
    /\ pc = "plot_changes"
    /\ df' = to_datetime(df)
    /\ Raise("plot_changes")
    /\ UNCHANGED <<today, rng, fs, hdfs, hadoopInstalled, calls>>

PlotTemperatureDistribution ==
    /\ pc = "plot_distribution"
    /\ fs' = [fs EXCEPT ![png_distribution] = hist(Temperatures(df), Bins)]
    /\ Done("plot_distribution", "put_csv")
    /\ UNCHANGED <<today, rng, df, hdfs, hadoopInstalled, calls>>

PlotTemperatureDistributionRaises ==
    /\ pc = "plot_distribution"
    /\ Raise("plot_distribution")
    /\ UNCHANGED <<today, rng, df, fs, hdfs, hadoopInstalled, calls>>

save_results_to_hdfs(local_path, hdfs_path, step, next) ==
    \E status \in ExitStatuses(fs[local_path]) :
        /\ calls' = Append(calls,
                      [cmd |-> <<"hadoop", "fs", "-put", "-f", local_path, hdfs_path>>,
                       status |-> status,
                       returned |-> "None"])
        /\ hdfs' = IF status = 0 THEN FsPut(hdfs, fs, local_path, hdfs_path) ELSE hdfs
        /\ Done(step, AfterCommand(status, next))
        /\ UNCHANGED <<today, rng, df, fs, hadoopInstalled>>

get_results_from_hdfs(hdfs_path, local_path, step, next) ==
    \E status \in ExitStatuses(hdfs[hdfs_path]) :
        /\ calls' = Append(calls,
                      [cmd |-> <<"hadoop", "fs", "-get", "-f", hdfs_path, local_path>>,
                       status |-> status,
                       returned |-> "None"])
        /\ fs' = IF status = 0 THEN FsGet(fs, hdfs, hdfs_path, local_path) ELSE fs
        /\ Done(step, AfterCommand(status, next))
        /\ UNCHANGED <<today, rng, df, hdfs, hadoopInstalled>>

PutCsv ==
    /\ pc = "put_csv"
    /\ save_results_to_hdfs(csv_file, hdfs_csv_path, "put_csv", "put_changes")

PutChanges ==
    /\ pc = "put_changes"
    /\ save_results_to_hdfs(png_changes, hdfs_temp_changes, "put_changes", "put_distribution")

PutDistribution ==
    /\ pc = "put_distribution"
    /\ save_results_to_hdfs(png_distribution, hdfs_temp_distribution, "put_distribution", "mkdir")

(* Path("results_from_hdfs").mkdir(exist_ok=True) *)
Mkdir ==
    /\ pc = "mkdir"
    /\ ~IsFile(fs[results_dir])
    /\ fs' = [fs EXCEPT ![results_dir] = Dir]
    /\ Done("mkdir", "get_csv")
    /\ UNCHANGED <<today, rng, df, hdfs, hadoopInstalled, calls>>

(* FileExistsError: the path exists and is not a directory. *)
MkdirRaises ==
    /\ pc = "mkdir"
    /\ IsFile(fs[results_dir])
    /\ Raise("mkdir")
    /\ UNCHANGED <<today, rng, df, fs, hdfs, hadoopInstalled, calls>>

GetCsv ==
    /\ pc = "get_csv"
    /\ get_results_from_hdfs(hdfs_csv_path, local_csv_copy, "get_csv", "get_changes")

GetChanges ==
    /\ pc = "get_changes"
    /\ get_results_from_hdfs(hdfs_temp_changes, local_changes_copy, "get_changes", "get_distribution")

GetDistribution ==
    /\ pc = "get_distribution"
    /\ get_results_from_hdfs(hdfs_temp_distribution, local_distribution_copy, "get_distribution", "report")

(* The last print; the script ends and the interpreter exits with 0. *)
Report ==
    /\ pc = "report"
    /\ pc' = "done"
    /\ steps' = Append(steps, [step |-> "report", ok |-> TRUE])
    /\ exitStatus' = 0
    /\ UNCHANGED <<today, rng, df, fs, hdfs, hadoopInstalled, calls>>

(* What the working directory holds of an earlier run. *)
InitialFiles(old, copies) ==
    [p \in LocalPaths |->
       IF p \in Artifacts THEN old
       ELSE IF p = results_dir
            THEN (CASE copies = "absent" -> Absent
                    [] copies = "file" -> Stale
                    [] OTHER -> Dir)
       ELSE IF copies = "stale" THEN Stale ELSE Absent]

Init ==
    /\ pc = "generate"
    /\ today \in 0..MaxToday
    /\ rng \in [start : 0..MaxStart, step : 0..MaxStep, draws : {0}]
    /\ df = NoFrame
    /\ \E old \in {Absent, Stale}, copies \in {"absent", "empty", "stale", "file"} :
          fs = InitialFiles(old, copies)
    /\ \E old \in {Absent, Stale} : hdfs = [p \in RemotePaths |-> old]
    /\ hadoopInstalled \in BOOLEAN
    /\ steps = <<>>
    /\ calls = <<>>
    /\ exitStatus = -1

Next ==
    \/ Generate
    \/ GenerateRaises
    \/ ToCsv
    \/ ToCsvRaises
    \/ PlotTemperatureChanges
    \/ PlotTemperatureChangesRaises
    \/ PlotTemperatureDistribution
    \/ PlotTemperatureDistributionRaises
    \/ PutCsv
    \/ PutChanges
    \/ PutDistribution
    \/ Mkdir
    \/ MkdirRaises
    \/ GetCsv
    \/ GetChanges
    \/ GetDistribution
    \/ Report

Spec == Init /\ [][Next]_vars

(* ======================================================================= *)
(*                              The properties                             *)
(* ======================================================================= *)
CitySet == {cities[k] : k \in 1..Len(cities)}

RowsOf(c, d) == {n \in 1..Len(df.rows) : df.rows[n].city = c /\ df.rows[n].date = d}

(* C1: generate_weather_data returns |C| x N readings in one-to-one        *)
(* correspondence with the pairs (city, today - k), 1 <= k <= N: each pair *)
(* has exactly one reading and no reading lies outside those pairs.        *)
C1_OneReadingPerCityAndDay ==
    pc = "to_csv" =>
        /\ Len(df.rows) = Len(cities) * NumDays
        /\ \A c \in CitySet, k \in 1..NumDays : Cardinality(RowsOf(c, today - k)) = 1
        /\ \A n \in 1..Len(df.rows) :
              /\ df.rows[n].city \in CitySet
              /\ \E k \in 1..NumDays : df.rows[n].date = today - k

C1_Witness ==
    /\ pc = "to_csv"
    /\ Len(df.rows) = 180
    /\ df.rows[1].date = today - 30
    /\ df.rows[180].city = "Sydney"
    /\ df.rows[180].date = today - 1

(* C2 as stated: for every city the date today is in the dataset and the   *)
(* date today - N is not (the window (today - N, today]).                   *)
C2_WindowEndsToday ==
    pc = "to_csv" =>
        \A c \in CitySet : RowsOf(c, today) # {} /\ RowsOf(c, today - NumDays) = {}

(* C2 amended: for every city the date today - N is in the dataset and the *)
(* date today is not (the window [today - N, today)).                       *)
C2_WindowEndsYesterday ==
    pc = "to_csv" =>
        \A c \in CitySet : RowsOf(c, today - NumDays) # {} /\ RowsOf(c, today) = {}

C2_Witness ==
    /\ pc = "to_csv"
    /\ \A c \in CitySet : RowsOf(c, today - NumDays) # {} /\ RowsOf(c, today - 1) # {}
    /\ \A n \in 1..Len(df.rows) : df.rows[n].date < today

(* C3: every generated temperature is a multiple of 0.1 and lies in        *)
(* [-5.0, 35.0], whatever the random source returned in [-5, 35].          *)
C3_TemperatureRoundedInRange ==
    pc = "to_csv" =>
        \A n \in 1..Len(df.rows) :
            /\ df.rows[n].temperature % RawDen = 0
            /\ TempMin * Unit <= df.rows[n].temperature
            /\ df.rows[n].temperature <= TempMax * Unit

(* A run whose draws hold both ends of the range and a value that is not   *)
(* a multiple of 0.1, each stored as the rounded value.                    *)
C3_Witness ==
    /\ pc = "to_csv"
    /\ \E lo \in 1..Len(df.rows) :
          /\ uniform(rng, lo - 1) = TempMin * Unit
          /\ df.rows[lo].temperature = TempMin * Unit
    /\ \E hi \in 1..Len(df.rows) :
          /\ uniform(rng, hi - 1) = TempMax * Unit
          /\ df.rows[hi].temperature = TempMax * Unit
    /\ \E mid \in 1..Len(df.rows) :
          /\ uniform(rng, mid - 1) % RawDen # 0
          /\ df.rows[mid].temperature # uniform(rng, mid - 1)
          /\ df.rows[mid].temperature % RawDen = 0

(* ----------------------------------------------------------------------- *)
MainOrder ==
    <<"generate", "to_csv", "plot_changes", "plot_distribution",
      "put_csv", "put_changes", "put_distribution",
      "get_csv", "get_changes", "get_distribution">>

StepNames(sq) == [k \in 1..Len(sq) |-> sq[k].step]

Named == SelectSeq(steps, LAMBDA e : \E k \in 1..Len(MainOrder) : MainOrder[k] = e.step)

StepIndex(name) == {k \in 1..Len(steps) : steps[k].step = name}

Writer(step) ==
    CASE step = "put_csv" -> "to_csv"
      [] step = "put_changes" -> "plot_changes"
      [] step = "put_distribution" -> "plot_distribution"

IsPut(c) == c.cmd[3] = "-put"
IsGet(c) == c.cmd[3] = "-get"

(* C4: the steps of main happen one after another in the order generate,   *)
(* persist csv, line chart, histogram, put x 3, get x 3; so no artifact is *)
(* put before it was written, no get comes before all three puts, and a    *)
(* get of a remote path comes after the put to that path.                  *)
C4_StepsInOrder ==
    /\ \A k \in 1..Len(Named) : Named[k].step = MainOrder[k]
    /\ \A p \in {"put_csv", "put_changes", "put_distribution"} :
          \A k \in StepIndex(p) :
              \E j \in StepIndex(Writer(p)) : j < k /\ steps[j].ok
    /\ \A k \in 1..Len(calls) :
          IsGet(calls[k]) =>
              /\ Cardinality({j \in 1..(k - 1) : IsPut(calls[j])}) = 3
              /\ \E j \in 1..(k - 1) :
                    IsPut(calls[j]) /\ calls[j].cmd[6] = calls[k].cmd[5]

C4_Witness ==
    /\ pc = "done"
    /\ StepNames(Named) = MainOrder
    /\ Len(calls) = 6

(* C5 as stated: a command that exits non-zero or cannot be launched makes *)
(* save_results_to_hdfs / get_results_from_hdfs return a RemoteSyncError,  *)
(* and a command that exits with 0 does not.                               *)
C5_FailureReported ==
    \A k \in 1..Len(calls) :
        (calls[k].status # 0) <=> (calls[k].returned = "RemoteSyncError")

ArtifactOf ==
    <<[local |-> csv_file, remote |-> hdfs_csv_path, copy |-> local_csv_copy, kind |-> "csv"],
      [local |-> png_changes, remote |-> hdfs_temp_changes, copy |-> local_changes_copy, kind |-> "lines"],
      [local |-> png_distribution, remote |-> hdfs_temp_distribution, copy |-> local_distribution_copy, kind |-> "hist"]>>

(* C6: at the end of main, for each artifact whose put and whose get       *)
(* succeeded, the file under results_from_hdfs/ is the artifact this run   *)
(* produced, whatever the remote path and the destination held before.     *)
C6_RoundTrip ==
    pc = "done" =>
        \A a \in 1..3 :
            (calls[a].status = 0 /\ calls[a + 3].status = 0) =>
                /\ fs[ArtifactOf[a].copy] = fs[ArtifactOf[a].local]
                /\ fs[ArtifactOf[a].local].kind = ArtifactOf[a].kind
                /\ hdfs[ArtifactOf[a].remote] = fs[ArtifactOf[a].local]

(* The first round trip done over a stale copy, the other copies of the    *)
(* earlier run still in place.                                             *)
C6_Witness ==
    /\ pc = "get_changes"
    /\ calls[1].status = 0
    /\ calls[4].status = 0
    /\ fs[local_csv_copy] = to_csv(df)
    /\ fs[local_changes_copy] = Stale
    /\ fs[local_distribution_copy] = Stale

(* ----------------------------------------------------------------------- *)
Sum(s) ==
    LET S[n \in 0..Len(s)] == IF n = 0 THEN 0 ELSE S[n - 1] + s[n]
    IN  S[Len(s)]

(* Value v (in fine units) lies in bin j of the edges e (kept times Bins). *)
InBin(v, e, j) ==
    /\ e[j] <= Bins * v
    /\ \/ Bins * v < e[j + 1]
       \/ j = Bins /\ Bins * v = e[j + 1]

HistogramCounts(h) ==
    /\ Len(h.counts) = Bins
    /\ Len(h.edges) = Bins + 1
    /\ \A j \in 1..Bins : h.edges[j + 1] - h.edges[j] = h.edges[2] - h.edges[1]
    /\ \A n \in 1..Len(df.rows) :
          Cardinality({j \in 1..Bins : InBin(df.rows[n].temperature, h.edges, j)}) = 1
    /\ \A j \in 1..Bins :
          h.counts[j] = Cardinality({n \in 1..Len(df.rows) :
                                        InBin(df.rows[n].temperature, h.edges, j)})
    /\ Sum(h.counts) = Len(df.rows)

(* C7 as stated: 20 equal-width bins spanning [min, max] of the dataset,   *)
(* every reading in exactly one bin, the counts summing to the number of   *)
(* readings.                                                               *)
C7_BinsSpanMinMax ==
    pc = "put_csv" =>
        \A h \in {fs[png_distribution]} :
            /\ HistogramCounts(h)
            /\ \A t \in {Temperatures(df)} :
                  /\ h.edges[1] = Bins * SeqMin(t)
                  /\ h.edges[Bins + 1] = Bins * SeqMax(t)

(* C7 amended: the bins span [min, max] when min < max and                 *)
(* [min - 0.5, max + 0.5] when all temperatures are equal; the rest as     *)
(* stated.                                                                 *)
C7_BinsSpanMinMaxOrUnitRange ==
    pc = "put_csv" =>
        \A h \in {fs[png_distribution]} :
            /\ HistogramCounts(h)
            /\ \A t \in {Temperatures(df)} :
                 \A lo \in {SeqMin(t)}, hi \in {SeqMax(t)} :
                    IF lo < hi
                    THEN h.edges[1] = Bins * lo /\ h.edges[Bins + 1] = Bins * hi
                    ELSE /\ 2 * h.edges[1] = Bins * (2 * lo - Unit)
                         /\ 2 * h.edges[Bins + 1] = Bins * (2 * hi + Unit)

C7_Witness ==
    /\ pc = "put_csv"
    /\ \A h \in {fs[png_distribution]} :
          /\ h.edges[1] < h.edges[Bins + 1]
          /\ h.counts[Bins] >= 1
          /\ \E n \in 1..Len(df.rows) : Bins * df.rows[n].temperature = h.edges[Bins + 1]
          /\ Sum(h.counts) = 180

(* ----------------------------------------------------------------------- *)
ExpectedCalls ==
    <<<<"hadoop", "fs", "-put", "-f", csv_file, hdfs_csv_path>>,
      <<"hadoop", "fs", "-put", "-f", png_changes, hdfs_temp_changes>>,
      <<"hadoop", "fs", "-put", "-f", png_distribution, hdfs_temp_distribution>>,
      <<"hadoop", "fs", "-get", "-f", hdfs_csv_path, local_csv_copy>>,
      <<"hadoop", "fs", "-get", "-f", hdfs_temp_changes, local_changes_copy>>,
      <<"hadoop", "fs", "-get", "-f", hdfs_temp_distribution, local_distribution_copy>>>>

CallsIssuedAt(at) ==
    CASE at \in {"generate", "to_csv", "plot_changes", "plot_distribution", "put_csv"} -> 0
      [] at = "put_changes" -> 1
      [] at = "put_distribution" -> 2
      [] at \in {"mkdir", "get_csv"} -> 3
      [] at = "get_changes" -> 4
      [] at = "get_distribution" -> 5
      [] at \in {"report", "done"} -> 6

LocalSteps == {"generate", "to_csv", "plot_changes", "plot_distribution", "mkdir"}

(* C8: whatever the six commands return, main issues each of them once and *)
(* in order, a command never ends the run, and a run that ends normally    *)
(* has issued all six, printed its last line and exits with status 0.      *)
C8_OutcomesIgnored ==
    /\ \A k \in 1..Len(calls) : calls[k].cmd = ExpectedCalls[k]
    /\ pc # "aborted" => Len(calls) = CallsIssuedAt(pc)
    /\ pc = "aborted" =>
          /\ steps[Len(steps)].step \in LocalSteps
          /\ ~steps[Len(steps)].ok
    /\ pc = "done" =>
          /\ Len(calls) = 6
          /\ steps[Len(steps)].step = "report"
          /\ exitStatus = 0

C8_Witness ==
    /\ pc = "done"
    /\ exitStatus = 0
    /\ Len(calls) = 6
    /\ \A k \in 1..6 : calls[k].status # 0

(* C9: once synthesis, persisting the csv or a render step has failed, no  *)
(* later step is executed: no command is issued, the verification          *)
(* directory is not made, and the run does not report completion.          *)
C9_FailureAborts ==
    \A k \in 1..Len(steps) :
        (~steps[k].ok /\ steps[k].step \in {"generate", "to_csv", "plot_changes", "plot_distribution"}) =>
            /\ k = Len(steps)
            /\ pc = "aborted"
            /\ calls = <<>>
            /\ StepIndex("mkdir") = {}
            /\ StepIndex("report") = {}
            /\ exitStatus # 0

C9_Witness ==
    /\ pc = "aborted"
    /\ StepNames(steps) = <<"generate", "to_csv", "plot_changes">>
    /\ ~steps[3].ok
    /\ calls = <<>>

(* C10 as stated: a renderer leaves the dataset of main as it was: the     *)
(* same rows in the same order, the same value and representation in every *)
(* column.                                                                 *)
C10_RenderersReadOnly ==
    [][(pc \in {"plot_changes", "plot_distribution"}) => (df' = df)]_vars
====
